---- MODULE Spec2Model ----
(***************************************************************************)
(* Speech-to-text service (FastAPI + NVIDIA Parakeet).                     *)
(*                                                                         *)
(* Three specifications share this module:                                 *)
(*   Spec           the ASGI application of backend/app.py: the lifespan   *)
(*                  startup handler and the route handlers, scheduled on   *)
(*                  one asyncio event loop (uvicorn.run, one worker);      *)
(*   SpecSingleton  get_model_service() of backend/model_service.py called *)
(*                  by several threads;                                    *)
(*   SpecAudio      convert_to_wav and validate_audio of                   *)
(*                  backend/audio_utils.py applied to bounded inputs.      *)
(***************************************************************************)
EXTENDS Integers, Sequences, FiniteSets, TLC

VARIABLES
    \* ---- backend/app.py
    model_service,            \* app.py:42, the module global
    startup,                  \* lifespan startup: "pending", "running", "ready", "failed"
    running,                  \* the task that holds the event-loop thread, or None
    route,                    \* per request: the route it was sent to
    pc,                       \* per request: position of its handler
    filename,                 \* per request: audio.filename
    content,                  \* per request: the audio written to its input file
    converted,                \* per request: the audio in its converted file
    stage,                    \* per request: outcome of convert / validate / transcribe
    steps,                    \* per request: the pipeline steps invoked, in order
    audio_info,               \* per request: the dict validate_audio returned
    pending,                  \* per request: the return value or exception in flight
    response,                 \* per request: the HTTP response sent
    removeRaised,             \* per request: os.remove raised in the finally block
    raisedOn,                 \* per request: the files whose os.remove raised there
    removed,                  \* per request: the entries of TEMP_DIR it deleted
    tempdir,                  \* the entries of TEMP_DIR
    \* ---- backend/model_service.py
    _model_service_instance,  \* model_service.py:149, the module global
    heap,                     \* the ModelService objects constructed so far
    gpc,                      \* per caller of get_model_service: its position
    mine,                     \* per caller: the object it constructed
    got,                      \* per caller: the reference get_model_service returned
    loadResult,               \* per caller: how ASRModel.from_pretrained ended for it
    \* ---- backend/audio_utils.py applied to one file
    a_pc,
    a_file,
    a_res,
    \* ---- ModelService.transcribe_batch applied to one list of paths
    b_pc,
    b_paths,                  \* audio_paths
    b_outs,                   \* what self.model.transcribe(audio_paths) returned or raised
    b_res                     \* what transcribe_batch returned or raised

svars == <<model_service, startup, running, route, pc, filename, content, converted,
           stage, steps, audio_info, pending, response, removeRaised, raisedOn, removed, tempdir>>
gvars == <<_model_service_instance, heap, gpc, mine, got, loadResult>>
avars == <<a_pc, a_file, a_res>>
bvars == <<b_pc, b_paths, b_outs, b_res>>
vars == <<svars, gvars, avars, bvars>>

\* Python's None, for every variable that holds a record or a reference
None == [tag |-> "None"]

(***************************************************************************)
(* Bounds of the model.                                                    *)
(***************************************************************************)
\* HTTP requests sent to the application in one run
NumRequests == 2
\* threads that call get_model_service() in SpecSingleton
NumThreads == 3
\* frames around the duration limit tried by SpecAudio (limit - k .. limit + k)
MaxOver == 1
\* longest list of paths handed to transcribe_batch
MaxBatch == 3

(***************************************************************************)
(* backend/config.py                                                       *)
(***************************************************************************)
MODEL_NAME == "nvidia/parakeet-tdt-0.6b-v3"
SAMPLE_RATE == 16000
MAX_AUDIO_DURATION == 24 * 60
ALLOWED_FORMATS ==
    { <<".", "w", "a", "v">>, <<".", "w", "e", "b", "m">>, <<".", "m", "p", "3">>,
      <<".", "f", "l", "a", "c">>, <<".", "m", "4", "a">>, <<".", "o", "g", "g">> }

(***************************************************************************)
(* Strings whose characters matter are sequences of one-character strings. *)
(* str.lower() and pathlib's PurePath.name / PurePath.suffix, as app.py    *)
(* line 110 applies them to audio.filename.                                *)
(***************************************************************************)
UpperCase == <<"A", "B", "C", "D", "E", "F", "G", "H", "I", "J", "K", "L", "M",
               "N", "O", "P", "Q", "R", "S", "T", "U", "V", "W", "X", "Y", "Z">>
LowerCase == <<"a", "b", "c", "d", "e", "f", "g", "h", "i", "j", "k", "l", "m",
               "n", "o", "p", "q", "r", "s", "t", "u", "v", "w", "x", "y", "z">>

LowerChar(c) ==
    IF \E i \in 1..26 : UpperCase[i] = c
    THEN LowerCase[CHOOSE i \in 1..26 : UpperCase[i] = c]
    ELSE c

Lower(s) == [i \in 1..Len(s) |-> LowerChar(s[i])]

\* str.rfind: the last index (1-based) of ch in s, 0 when absent
RFind(s, ch) ==
    IF \E i \in 1..Len(s) : s[i] = ch
    THEN CHOOSE i \in 1..Len(s) : s[i] = ch /\ \A j \in (i+1)..Len(s) : s[j] # ch
    ELSE 0

\* PurePath.name: the final path component
PathName(p) == SubSeq(p, RFind(p, "/") + 1, Len(p))

\* PurePath.suffix: from the last dot of the name, unless that dot starts or
\* ends the name
PathSuffix(p) ==
    LET name == PathName(p)
        i == RFind(name, ".")
    IN IF 1 < i /\ i < Len(name) THEN SubSeq(name, i, Len(name)) ELSE <<>>

\* app.py:110
FileExtension(fname) == Lower(PathSuffix(fname))

\* a mutant of IsAllowedFormat: any non-empty extension passes
IsAllowedFormat_AnyExtension(ext) == ext # <<>>

\* app.py:113
IsAllowedFormat(ext) == ext \in ALLOWED_FORMATS

(***************************************************************************)
(* backend/audio_utils.py                                                  *)
(*                                                                         *)
(* An audio file is [decodable, sr, frames, channels]; a duration is the   *)
(* quotient frames / sr, kept as the pair so that no rounding is modelled  *)
(* in.  An exception is [type, cause].                                     *)
(***************************************************************************)
Exc(type, cause) == [tag |-> "raise", type |-> type, cause |-> cause]
Raised(x) == x.tag = "raise"

\* librosa.load(path, sr=target): the length after resampling,
\* ceil(frames * target / sr), computed without leaving 32 bits
Resample(frames, sr, target) ==
    LET whole == (frames \div sr) * target
        rest == (frames % sr) * target
    IN whole + (rest \div sr) + (IF rest % sr = 0 THEN 0 ELSE 1)

\* a mutant of DurationExceeds: no duration is too long
DurationExceeds_Never(frames, sr) == FALSE

\* a mutant of DurationExceeds: the comparison is >= instead of >
DurationExceeds_Inclusive(frames, sr) == frames >= MAX_AUDIO_DURATION * sr

\* librosa.get_duration(y, sr) > MAX_AUDIO_DURATION  (audio_utils.py:61)
DurationExceeds(frames, sr) == frames > MAX_AUDIO_DURATION * sr

\* the body of convert_to_wav's try block: what it writes, or what it raises
ConvertBody(present, file, writeOk) ==
    IF ~present \/ ~file.decodable THEN Exc("LibrosaError", "decode")
    ELSE IF ~writeOk THEN Exc("OSError", "write")
    ELSE [tag |-> "wav",
          wav |-> [decodable |-> TRUE, sr |-> SAMPLE_RATE,
                   frames |-> Resample(file.frames, file.sr, SAMPLE_RATE),
                   channels |-> 1]]

\* convert_to_wav: every exception of the body is raised again as ValueError
convert_to_wav(present, file, writeOk) ==
    LET r == ConvertBody(present, file, writeOk)
    IN IF Raised(r) THEN Exc("ValueError", r.cause) ELSE r

\* the body of validate_audio's try block
ValidateBody(present, file) ==
    IF ~present \/ ~file.decodable THEN Exc("LibrosaError", "decode")
    ELSE IF DurationExceeds(file.frames, file.sr)
         THEN Exc("ValueError", "duration_exceeded")
    ELSE [tag |-> "info",
          duration |-> <<file.frames, file.sr>>,
          sample_rate |-> file.sr,
          channels |-> file.channels,
          valid |-> TRUE]

\* validate_audio: every exception of the body, its own ValueError included,
\* is raised again as ValueError carrying the first one's message
validate_audio(present, file) ==
    LET r == ValidateBody(present, file)
    IN IF Raised(r) THEN Exc("ValueError", r.cause) ELSE r

(***************************************************************************)
(* SpecAudio: the two functions applied to one file drawn from AudioFiles. *)
(***************************************************************************)
SampleRates == {8000, 16000, 44100, 48000}
FrameCounts(sr) ==
    {0, 1, 3 * sr, 1500 * sr}
    \cup {MAX_AUDIO_DURATION * sr + d : d \in (0 - MaxOver)..MaxOver}
AudioFiles ==
    {[decodable |-> FALSE, sr |-> SAMPLE_RATE, frames |-> 0, channels |-> 1]}
    \cup UNION {{[decodable |-> TRUE, sr |-> sr, frames |-> f, channels |-> c] :
                    f \in FrameCounts(sr), c \in {1, 2}} : sr \in SampleRates}

AudioInit ==
    /\ a_pc = "new"
    /\ a_file \in AudioFiles
    /\ a_res = None

\* validate_audio(file_path) on the file as it is
AudioValidate ==
    /\ a_pc \in {"new", "converted"}
    /\ a_res' = validate_audio(TRUE, a_file)
    /\ a_pc' = "validated"
    /\ UNCHANGED a_file

\* convert_to_wav(input_path, output_path); the file becomes the one written
AudioConvert ==
    /\ a_pc = "new"
    /\ \E writeOk \in BOOLEAN :
          LET r == convert_to_wav(TRUE, a_file, writeOk)
          IN /\ a_res' = r
             /\ a_pc' = IF Raised(r) THEN "failed" ELSE "converted"
             /\ a_file' = IF Raised(r) THEN a_file ELSE r.wav

(***************************************************************************)
(* backend/model_service.py                                                *)
(*                                                                         *)
(* A ModelService object is heap[i] = [model, model_name]; a reference to  *)
(* it is Ref(i).  Caller 0 of get_model_service is startup_event; the      *)
(* callers 1..NumThreads are threads of SpecSingleton.                     *)
(***************************************************************************)
Threads == 1..NumThreads
Callers == {0} \cup Threads

Ref(i) == [tag |-> "ModelService", id |-> i]
ASRModel == [tag |-> "ASRModel", name |-> MODEL_NAME]

\* a mutant of LoadModel: the except clause logs the failure and returns
LoadModel_Swallow(ok) ==
    IF ok THEN [tag |-> "loaded", model |-> ASRModel]
    ELSE [tag |-> "loaded", model |-> None]

\* ModelService._load_model: from_pretrained returns the model or raises, and
\* every exception is raised again as RuntimeError
LoadModel(ok) ==
    IF ok THEN [tag |-> "loaded", model |-> ASRModel]
    ELSE Exc("RuntimeError", "Model initialization failed")

\* get_model_service, line 161: if _model_service_instance is None
InstanceMissing(inst) == inst = None

GmsCheck(c) ==
    /\ gpc[c] = "check"
    /\ gpc' = [gpc EXCEPT ![c] =
                  IF InstanceMissing(_model_service_instance)
                  THEN "construct" ELSE "return"]
    /\ UNCHANGED <<_model_service_instance, heap, mine, got, loadResult>>

\* line 162, right-hand side: ModelService() runs __init__ and _load_model
GmsConstruct(c) ==
    /\ gpc[c] = "construct"
    /\ \E ok \in BOOLEAN :
          LET r == LoadModel(ok)
              obj == [model |-> IF Raised(r) THEN None ELSE r.model,
                      model_name |-> MODEL_NAME]
          IN /\ heap' = Append(heap, obj)
             /\ loadResult' = [loadResult EXCEPT ![c] = IF ok THEN "ok" ELSE "failed"]
             /\ IF Raised(r)
                THEN /\ gpc' = [gpc EXCEPT ![c] = "raised"]
                     /\ UNCHANGED mine
                ELSE /\ gpc' = [gpc EXCEPT ![c] = "assign"]
                     /\ mine' = [mine EXCEPT ![c] = Ref(Len(heap) + 1)]
    /\ UNCHANGED <<_model_service_instance, got>>

\* line 162, the assignment to the global
GmsAssign(c) ==
    /\ gpc[c] = "assign"
    /\ _model_service_instance' = mine[c]
    /\ gpc' = [gpc EXCEPT ![c] = "return"]
    /\ UNCHANGED <<heap, mine, got, loadResult>>

\* line 164: return _model_service_instance
GmsReturn(c) ==
    /\ gpc[c] = "return"
    /\ got' = [got EXCEPT ![c] = _model_service_instance]
    /\ gpc' = [gpc EXCEPT ![c] = "returned"]
    /\ UNCHANGED <<_model_service_instance, heap, mine, loadResult>>

GmsInit ==
    /\ _model_service_instance = None
    /\ heap = <<>>
    /\ gpc = [c \in Callers |-> "idle"]
    /\ mine = [c \in Callers |-> None]
    /\ got = [c \in Callers |-> None]
    /\ loadResult = [c \in Callers |-> "none"]

(***************************************************************************)
(* SpecSingleton: threads call get_model_service(); a thread may be        *)
(* preempted between any two of the steps above.                           *)
(***************************************************************************)
ThreadCall(c) ==
    /\ gpc[c] = "idle"
    /\ gpc' = [gpc EXCEPT ![c] = "check"]
    /\ UNCHANGED <<_model_service_instance, heap, mine, got, loadResult>>

(***************************************************************************)
(* backend/app.py                                                          *)
(*                                                                         *)
(* uvicorn.run("app:app") serves every request on one event loop: a        *)
(* handler keeps the loop's thread from its first statement to its next    *)
(* await or to its end.  transcribe_audio awaits once (audio.read());      *)
(* startup_event, health_check, model_info and cleanup_temp_files never.   *)
(* `running` is the task that holds the thread.  The application object   *)
(* answers requests whether or not its lifespan startup has run: a server  *)
(* without lifespan support, or a test client used outside its context     *)
(* manager, never runs startup_event.                                      *)
(***************************************************************************)
Requests == 1..NumRequests

StartupTask == [tag |-> "startup"]
ReqTask(r) == [tag |-> "request", id |-> r]

\* audio.filename of the uploads tried: b.c.Mp3, a.txt, .ogg, x.wav/y
Filenames ==
    { <<"b", ".", "c", ".", "M", "p", "3">>,
      <<"a", ".", "t", "x", "t">>,
      <<".", "o", "g", "g">>,
      <<"x", ".", "w", "a", "v", "/", "y">> }

\* the audio uploaded: undecodable bytes, 3 s of mono 16 kHz, exactly 1440 s
\* of stereo 8 kHz, 1500 s of mono 48 kHz
Uploads ==
    { [decodable |-> FALSE, sr |-> SAMPLE_RATE, frames |-> 0, channels |-> 1],
      [decodable |-> TRUE, sr |-> SAMPLE_RATE, frames |-> 3 * SAMPLE_RATE, channels |-> 1],
      [decodable |-> TRUE, sr |-> 8000, frames |-> MAX_AUDIO_DURATION * 8000, channels |-> 2],
      [decodable |-> TRUE, sr |-> 48000, frames |-> 1500 * 48000, channels |-> 1] }

\* what self.model.transcribe([path]) returns as output[0]: a str, or a
\* hypothesis object with .text and possibly .language
ModelOutputs ==
    { [tag |-> "output", kind |-> "str", text |-> "hello world",
       has_language |-> FALSE, language |-> ""],
      [tag |-> "output", kind |-> "hypothesis", text |-> "hello world",
       has_language |-> TRUE, language |-> "en"] }

\* the entries of TEMP_DIR: <<file_id, "input">> is <file_id>_input<ext>,
\* <<file_id, "converted">> is <file_id>_converted.wav (app.py:120-121), and
\* <<0, "dir">> is a sub-directory.  uuid.uuid4() is modelled as an identifier
\* no other request has: the request's own number.
InputPath(r) == <<r, "input">>
WavPath(r) == <<r, "converted">>
SubDir == <<0, "dir">>
IsFile(e) == e[2] # "dir"

\* a detail is <<message, cause>>: the message's fixed text and the str(e) in it
HTTPException(status, detail) ==
    [tag |-> "raise", type |-> "HTTPException", status |-> status, detail |-> detail]
Return(body) == [tag |-> "return", body |-> body]

\* a mutant of NotInitializedError: the wrong status code
NotInitializedError_500 == HTTPException(500, <<"Model not initialized", "">>)

\* app.py:77, 89, 106
NotInitializedError == HTTPException(503, <<"Model not initialized", "">>)

\* what the framework sends for the handler's outcome: the returned body with
\* status 200, an HTTPException's status and detail, 500 for anything else
Respond(p) ==
    IF p.tag = "return" THEN [status |-> 200, detail |-> <<"", "">>, body |-> p.body]
    ELSE IF p.type = "HTTPException"
         THEN [status |-> p.status, detail |-> p.detail, body |-> None]
    ELSE [status |-> 500, detail |-> <<"Internal Server Error", "">>, body |-> None]

\* app.py:134-136: except ValueError around convert_to_wav
ConvertHandler(e) ==
    IF e.type = "ValueError"
    THEN HTTPException(400, <<"Audio conversion failed", e.cause>>)
    ELSE e

\* app.py:142-144: except ValueError around validate_audio
ValidateHandler(e) ==
    IF e.type = "ValueError"
    THEN HTTPException(400, <<"Audio validation failed", e.cause>>)
    ELSE e

\* a mutant of OuterHandler: the clause `except HTTPException: raise` is missing
OuterHandler_NoReraise(e) == HTTPException(500, <<"Transcription failed", "HTTPException">>)

\* app.py:163-170: except HTTPException: raise / except Exception: 500
OuterHandler(e) ==
    IF e.type = "HTTPException" THEN e
    ELSE HTTPException(500, <<"Transcription failed", e.cause>>)

\* a mutant of get_model_info: the status does not look at self.model
get_model_info_AlwaysLoaded(obj, cuda) ==
    [model_name |-> obj.model_name,
     device |-> IF cuda THEN "cuda" ELSE "cpu",
     status |-> "loaded"]

\* ModelService.get_model_info (model_service.py:132-145)
get_model_info(obj, cuda) ==
    [model_name |-> obj.model_name,
     device |-> IF cuda THEN "cuda" ELSE "cpu",
     status |-> IF obj.model # None THEN "loaded" ELSE "not loaded"]

\* ModelService.transcribe, lines 68-94: the try block around the model call;
\* out is what the model returned, or an exception it raised
TranscribeBody(out) ==
    IF Raised(out) THEN Exc("RuntimeError", "Transcription failed")
    ELSE [tag |-> "result",
          text |-> out.text,
          language |-> IF out.has_language THEN out.language ELSE "auto-detected",
          confidence |-> None]

\* app.py:174-180: the entries left by the finally block; the second os.remove
\* is not reached when the first one raises
FinallyFiles(dir, r, inRaises, wavRaises) ==
    IF InputPath(r) \in dir /\ inRaises THEN dir
    ELSE LET d1 == dir \ {InputPath(r)}
         IN IF WavPath(r) \in d1 /\ wavRaises THEN d1 ELSE d1 \ {WavPath(r)}

\* whether an os.remove of the finally block raised
FinallyRaised(dir, r, inRaises, wavRaises) ==
    \/ InputPath(r) \in dir /\ inRaises
    \/ WavPath(r) \in dir /\ wavRaises

\* the files on which an os.remove of the finally block raised
FinallyRaisedOn(dir, r, inRaises, wavRaises) ==
    IF InputPath(r) \in dir /\ inRaises THEN {InputPath(r)}
    ELSE IF WavPath(r) \in dir /\ wavRaises THEN {WavPath(r)}
    ELSE {}

\* a mutant of FinallyOutcome: a failed deletion replaces the outcome
FinallyOutcome_Escalate(p, raised) ==
    IF raised THEN HTTPException(500, <<"Cleanup failed", "remove">>) ELSE p

\* app.py:179-180: except Exception: logger.warning; the outcome in flight
\* (the return value or the exception) continues
FinallyOutcome(p, raised) == p

\* every variable of app.py but the content of TEMP_DIR
ServerFields ==
    /\ model_service = None
    /\ startup = "pending"
    /\ running = None
    /\ route = [r \in Requests |-> "none"]
    /\ pc = [r \in Requests |-> "idle"]
    /\ filename = [r \in Requests |-> <<>>]
    /\ content = [r \in Requests |-> None]
    /\ converted = [r \in Requests |-> None]
    /\ stage = [r \in Requests |->
                  [convert |-> "notrun", validate |-> "notrun", transcribe |-> "notrun"]]
    /\ steps = [r \in Requests |-> <<>>]
    /\ audio_info = [r \in Requests |-> None]
    /\ pending = [r \in Requests |-> None]
    /\ response = [r \in Requests |-> None]
    /\ removeRaised = [r \in Requests |-> FALSE]
    /\ raisedOn = [r \in Requests |-> {}]
    /\ removed = [r \in Requests |-> {}]

\* TEMP_DIR as os.makedirs(TEMP_DIR, exist_ok=True) creates it (config.py:33)
ServerInit == ServerFields /\ tempdir = {}

\* ---- startup_event (app.py:45-56), run once by the server's lifespan

StartupBegin ==
    /\ startup = "pending"
    /\ running = None
    /\ startup' = "running"
    /\ running' = StartupTask
    /\ gpc' = [gpc EXCEPT ![0] = "check"]
    /\ UNCHANGED <<model_service, route, pc, filename, content, converted, stage, steps,
                   audio_info, pending, response, removeRaised, raisedOn, removed, tempdir>>
    /\ UNCHANGED <<_model_service_instance, heap, mine, got, loadResult>>
    /\ UNCHANGED <<avars, bvars>>

\* line 52, the call: get_model_service() runs on the loop's thread
StartupGetModelService ==
    /\ startup = "running"
    /\ running = StartupTask
    /\ GmsCheck(0) \/ GmsConstruct(0) \/ GmsAssign(0) \/ GmsReturn(0)
    /\ UNCHANGED svars
    /\ UNCHANGED <<avars, bvars>>

\* lines 52-56: the assignment on return; on an exception the global keeps its
\* value and the exception leaves the handler
StartupOutcome(position, returned) ==
    IF position = "returned"
    THEN [startup |-> "ready", model_service |-> returned]
    ELSE [startup |-> "failed", model_service |-> model_service]

StartupEnd ==
    /\ startup = "running"
    /\ running = StartupTask
    /\ gpc[0] \in {"returned", "raised"}
    /\ LET o == StartupOutcome(gpc[0], got[0])
       IN /\ startup' = o.startup
          /\ model_service' = o.model_service
    /\ running' = None
    /\ UNCHANGED <<route, pc, filename, content, converted, stage, steps,
                   audio_info, pending, response, removeRaised, raisedOn, removed, tempdir>>
    /\ UNCHANGED gvars
    /\ UNCHANGED <<avars, bvars>>

\* ---- GET /health (app.py:73-82) and GET /model-info (app.py:85-91)

\* requests are numbered in the order they arrive: r is the next one
Arrives(r) ==
    /\ pc[r] = "idle"
    /\ \A q \in Requests : q < r => pc[q] # "idle"

\* the handler's only step: answer, for a request r not yet sent
Answer(r, name, outcome) ==
    /\ Arrives(r)
    /\ running = None
    /\ route' = [route EXCEPT ![r] = name]
    /\ response' = [response EXCEPT ![r] = Respond(outcome)]
    /\ pc' = [pc EXCEPT ![r] = "done"]

HealthCheck(r) ==
    /\ \E cuda \in BOOLEAN :
          Answer(r, "health",
                 IF model_service = None THEN NotInitializedError
                 ELSE Return([status |-> "healthy",
                              model |-> get_model_info(heap[model_service.id], cuda)]))
    /\ UNCHANGED <<model_service, startup, running, filename, content, converted, stage,
                   steps, audio_info, pending, removeRaised, raisedOn, removed, tempdir>>
    /\ UNCHANGED gvars
    /\ UNCHANGED <<avars, bvars>>

ModelInfo(r) ==
    /\ \E cuda \in BOOLEAN :
          Answer(r, "model-info",
                 IF model_service = None THEN NotInitializedError
                 ELSE Return(get_model_info(heap[model_service.id], cuda)))
    /\ UNCHANGED <<model_service, startup, running, filename, content, converted, stage,
                   steps, audio_info, pending, removeRaised, raisedOn, removed, tempdir>>
    /\ UNCHANGED gvars
    /\ UNCHANGED <<avars, bvars>>

\* ---- DELETE /cleanup (app.py:183-207)

\* os.listdir, then os.remove of each regular file in turn: the call deletes
\* the set gone of them, all of them unless listdir or a remove raised
CleanupTempFiles(r) ==
    /\ \E listOk \in BOOLEAN, gone \in SUBSET {e \in tempdir : IsFile(e)} :
          /\ ~listOk => gone = {}
          /\ Answer(r, "cleanup",
                    IF ~listOk THEN HTTPException(500, <<"Cleanup failed", "listdir">>)
                    ELSE IF gone # {e \in tempdir : IsFile(e)}
                         THEN HTTPException(500, <<"Cleanup failed", "remove">>)
                    ELSE Return([success |-> TRUE, files_deleted |-> Cardinality(tempdir)]))
          /\ tempdir' = tempdir \ gone
          /\ removed' = [removed EXCEPT ![r] = gone]
    /\ UNCHANGED <<model_service, startup, running, filename, content, converted, stage,
                   steps, audio_info, pending, removeRaised, raisedOn>>
    /\ UNCHANGED gvars
    /\ UNCHANGED <<avars, bvars>>

\* ---- POST /transcribe (app.py:94-180)

\* a mutant of ToFinally: a failed validation leaves the request unanswered
ToFinally_Abandon(r, o) ==
    /\ pending' = [pending EXCEPT ![r] = o]
    /\ pc' = [pc EXCEPT ![r] = IF pc[r] = "validate" THEN "abandoned" ELSE "finally"]

\* a mutant of ToFinally: a failed validation goes back to the conversion
ToFinally_Retry(r, o) ==
    /\ pending' = [pending EXCEPT ![r] = o]
    /\ pc' = [pc EXCEPT ![r] = IF pc[r] = "validate" THEN "convert" ELSE "finally"]

\* the handler leaves its try block with outcome o: the finally block is next
ToFinally(r, o) ==
    /\ pending' = [pending EXCEPT ![r] = o]
    /\ pc' = [pc EXCEPT ![r] = "finally"]

\* lines 105-128 up to the await: the gate, the extension check, open()
TranscribeStart(r) ==
    /\ Arrives(r)
    /\ running = None
    /\ \E fname \in Filenames, openOk \in BOOLEAN :
          /\ route' = [route EXCEPT ![r] = "transcribe"]
          /\ filename' = [filename EXCEPT ![r] = fname]
          /\ IF model_service = None
             THEN /\ response' = [response EXCEPT ![r] = Respond(NotInitializedError)]
                  /\ pc' = [pc EXCEPT ![r] = "done"]
                  /\ UNCHANGED <<running, steps, pending, tempdir>>
             ELSE IF ~IsAllowedFormat(FileExtension(fname))
             THEN /\ response' = [response EXCEPT ![r] =
                         Respond(HTTPException(400, <<"Unsupported file format", "">>))]
                  /\ pc' = [pc EXCEPT ![r] = "done"]
                  /\ UNCHANGED <<running, steps, pending, tempdir>>
             ELSE /\ steps' = [steps EXCEPT ![r] = Append(@, "persist")]
                  /\ UNCHANGED response
                  /\ IF openOk
                     THEN \* the file exists, empty; await audio.read() gives up the thread
                          /\ tempdir' = tempdir \cup {InputPath(r)}
                          /\ pc' = [pc EXCEPT ![r] = "reading"]
                          /\ UNCHANGED <<running, pending>>
                     ELSE /\ ToFinally(r, OuterHandler(Exc("OSError", "open")))
                          /\ running' = ReqTask(r)
                          /\ UNCHANGED tempdir
    /\ UNCHANGED <<model_service, startup, content, converted, stage, audio_info,
                   removeRaised, raisedOn, removed>>
    /\ UNCHANGED gvars
    /\ UNCHANGED <<avars, bvars>>

\* lines 127-128: audio.read() completes and the task is resumed; f.write
\* stores the bytes in the file opened at line 126, whether or not its name
\* is still in TEMP_DIR
TranscribeRead(r) ==
    /\ pc[r] = "reading"
    /\ running = None
    /\ running' = ReqTask(r)
    /\ \E io \in {"ok", "read", "write"}, upload \in Uploads :
          IF io = "ok"
          THEN /\ content' = [content EXCEPT ![r] = upload]
               /\ pc' = [pc EXCEPT ![r] = "convert"]
               /\ UNCHANGED pending
          ELSE /\ ToFinally(r, OuterHandler(Exc("OSError", io)))
               /\ UNCHANGED content
    /\ UNCHANGED <<model_service, startup, route, filename, converted, stage, steps,
                   audio_info, response, removeRaised, raisedOn, removed, tempdir>>
    /\ UNCHANGED gvars
    /\ UNCHANGED <<avars, bvars>>

\* lines 131-136: convert_to_wav(input_path, wav_path); a failed sf.write may
\* leave a partial file
Convert(r) ==
    /\ pc[r] = "convert"
    /\ running = ReqTask(r)
    /\ steps' = [steps EXCEPT ![r] = Append(@, "normalize")]
    /\ \E writeOk \in BOOLEAN, partial \in BOOLEAN :
          LET res == convert_to_wav(InputPath(r) \in tempdir, content[r], writeOk)
          IN IF Raised(res)
             THEN /\ stage' = [stage EXCEPT ![r].convert = "failed"]
                  /\ ToFinally(r, OuterHandler(ConvertHandler(res)))
                  /\ tempdir' = IF partial /\ res.cause = "write"
                                THEN tempdir \cup {WavPath(r)} ELSE tempdir
                  /\ UNCHANGED converted
             ELSE /\ stage' = [stage EXCEPT ![r].convert = "ok"]
                  /\ converted' = [converted EXCEPT ![r] = res.wav]
                  /\ tempdir' = tempdir \cup {WavPath(r)}
                  /\ pc' = [pc EXCEPT ![r] = "validate"]
                  /\ UNCHANGED pending
    /\ UNCHANGED <<model_service, startup, running, route, filename, content,
                   audio_info, response, removeRaised, raisedOn, removed>>
    /\ UNCHANGED gvars
    /\ UNCHANGED <<avars, bvars>>

\* lines 139-144: validate_audio(wav_path); the read of the file may fail
Validate(r) ==
    /\ pc[r] = "validate"
    /\ running = ReqTask(r)
    /\ steps' = [steps EXCEPT ![r] = Append(@, "validate")]
    /\ \E readOk \in BOOLEAN :
          LET res == validate_audio(WavPath(r) \in tempdir /\ readOk, converted[r])
          IN IF Raised(res)
             THEN /\ stage' = [stage EXCEPT ![r].validate = "failed"]
                  /\ ToFinally(r, OuterHandler(ValidateHandler(res)))
                  /\ UNCHANGED audio_info
             ELSE /\ stage' = [stage EXCEPT ![r].validate = "ok"]
                  /\ audio_info' = [audio_info EXCEPT ![r] = res]
                  /\ pc' = [pc EXCEPT ![r] = "infer"]
                  /\ UNCHANGED pending
    /\ UNCHANGED <<model_service, startup, running, route, filename, content, converted,
                   response, removeRaised, raisedOn, removed, tempdir>>
    /\ UNCHANGED gvars
    /\ UNCHANGED <<avars, bvars>>

\* line 148, the call model_service.transcribe(wav_path) on the handler's own
\* thread; model_service.py:65-72: the guard, then the model is invoked
InferBegin(r) ==
    /\ pc[r] = "infer"
    /\ running = ReqTask(r)
    /\ steps' = [steps EXCEPT ![r] = Append(@, "infer")]
    /\ IF heap[model_service.id].model = None
       THEN /\ stage' = [stage EXCEPT ![r].transcribe = "failed"]
            /\ ToFinally(r, OuterHandler(Exc("RuntimeError", "Model not loaded")))
       ELSE /\ pc' = [pc EXCEPT ![r] = "inferring"]
            /\ UNCHANGED <<stage, pending>>
    /\ UNCHANGED <<model_service, startup, running, route, filename, content, converted,
                   audio_info, response, removeRaised, raisedOn, removed, tempdir>>
    /\ UNCHANGED gvars
    /\ UNCHANGED <<avars, bvars>>

\* a mutant of SelfAfterTranscribe: a failed call drops the model
SelfAfterTranscribe_Reset(obj, res) ==
    IF Raised(res) THEN [obj EXCEPT !.model = None] ELSE obj

\* the ModelService object after transcribe(audio_path) ran on it with result
\* res: lines 65-94 read self.model and assign no attribute of self
SelfAfterTranscribe(obj, res) == obj

\* the response dict of lines 151-157
ResponseBody(r, result) ==
    [success |-> TRUE,
     text |-> result.text,
     language |-> result.language,
     audio_duration |-> audio_info[r].duration,
     original_filename |-> filename[r]]

\* the model returns or raises (model_service.py:72-94); app.py:148-161
InferEnd(r) ==
    /\ pc[r] = "inferring"
    /\ running = ReqTask(r)
    /\ \E out \in ModelOutputs \cup {Exc("ModelError", "model")} :
          LET res == TranscribeBody(out)
          IN /\ heap' = [heap EXCEPT ![model_service.id] = SelfAfterTranscribe(@, res)]
             /\ IF Raised(res)
                THEN /\ stage' = [stage EXCEPT ![r].transcribe = "failed"]
                     /\ ToFinally(r, OuterHandler(res))
                ELSE /\ stage' = [stage EXCEPT ![r].transcribe = "ok"]
                     /\ ToFinally(r, Return(ResponseBody(r, res)))
    /\ UNCHANGED <<model_service, startup, running, route, filename, content, converted,
                   steps, audio_info, response, removeRaised, raisedOn, removed, tempdir>>
    /\ UNCHANGED <<_model_service_instance, gpc, mine, got, loadResult>>
    /\ UNCHANGED <<avars, bvars>>

\* lines 172-180, then the handler ends: the response is sent and the loop's
\* thread is free again
Finally(r) ==
    /\ pc[r] = "finally"
    /\ running = ReqTask(r)
    /\ steps' = [steps EXCEPT ![r] = Append(@, "cleanup")]
    /\ \E inRaises \in BOOLEAN, wavRaises \in BOOLEAN :
          LET left == FinallyFiles(tempdir, r, inRaises, wavRaises)
              raised == FinallyRaised(tempdir, r, inRaises, wavRaises)
          IN /\ tempdir' = left
             /\ removed' = [removed EXCEPT ![r] = tempdir \ left]
             /\ removeRaised' = [removeRaised EXCEPT ![r] = raised]
             /\ raisedOn' = [raisedOn EXCEPT ![r] =
                                FinallyRaisedOn(tempdir, r, inRaises, wavRaises)]
             /\ response' = [response EXCEPT ![r] =
                                Respond(FinallyOutcome(pending[r], raised))]
    /\ pc' = [pc EXCEPT ![r] = "done"]
    /\ running' = None
    /\ UNCHANGED <<model_service, startup, route, filename, content, converted, stage,
                   audio_info, pending>>
    /\ UNCHANGED gvars
    /\ UNCHANGED <<avars, bvars>>

(***************************************************************************)
(* The specifications                                                      *)
(***************************************************************************)
AudioIdle == a_pc = "new" /\ a_file = None /\ a_res = None

BatchIdle == b_pc = "new" /\ b_paths = <<>> /\ b_outs = None /\ b_res = None

Init == ServerInit /\ GmsInit /\ AudioIdle /\ BatchIdle

Next ==
    \/ StartupBegin
    \/ StartupGetModelService
    \/ StartupEnd
    \/ \E r \in Requests : HealthCheck(r)
    \/ \E r \in Requests : ModelInfo(r)
    \/ \E r \in Requests : CleanupTempFiles(r)
    \/ \E r \in Requests : TranscribeStart(r)
    \/ \E r \in Requests : TranscribeRead(r)
    \/ \E r \in Requests : Convert(r)
    \/ \E r \in Requests : Validate(r)
    \/ \E r \in Requests : InferBegin(r)
    \/ \E r \in Requests : InferEnd(r)
    \/ \E r \in Requests : Finally(r)

Spec == Init /\ [][Next]_vars

\* the server of SpecSingleton and SpecAudio does nothing
ServerIdle == ServerInit

InitSingleton == ServerIdle /\ GmsInit /\ AudioIdle /\ BatchIdle

NextSingleton ==
    \/ \E c \in Threads : ThreadCall(c) /\ UNCHANGED svars /\ UNCHANGED <<avars, bvars>>
    \/ \E c \in Threads : GmsCheck(c) /\ UNCHANGED svars /\ UNCHANGED <<avars, bvars>>
    \/ \E c \in Threads : GmsConstruct(c) /\ UNCHANGED svars /\ UNCHANGED <<avars, bvars>>
    \/ \E c \in Threads : GmsAssign(c) /\ UNCHANGED svars /\ UNCHANGED <<avars, bvars>>
    \/ \E c \in Threads : GmsReturn(c) /\ UNCHANGED svars /\ UNCHANGED <<avars, bvars>>

SpecSingleton == InitSingleton /\ [][NextSingleton]_vars

InitAudio == ServerIdle /\ GmsInit /\ AudioInit /\ BatchIdle

NextAudio ==
    \/ AudioValidate /\ UNCHANGED svars /\ UNCHANGED gvars /\ UNCHANGED bvars
    \/ AudioConvert /\ UNCHANGED svars /\ UNCHANGED gvars /\ UNCHANGED bvars

SpecAudio == InitAudio /\ [][NextAudio]_vars

(***************************************************************************)
(* Properties                                                              *)
(***************************************************************************)
Transcribed(r) == route[r] = "transcribe" /\ pc[r] = "done"
Routes503 == {"transcribe", "health", "model-info"}

\* C1: when a /transcribe handler has returned, neither its input file nor its
\* converted file is left in TEMP_DIR, on every exit branch.
C1_CleanupInvariant ==
    \A r \in Requests :
        Transcribed(r) => InputPath(r) \notin tempdir /\ WavPath(r) \notin tempdir

\* C2: whatever the interleaving of concurrent get_model_service() calls, the
\* model is loaded at most once and every call returns the same instance.
C2_AtMostOneInstance ==
    /\ Cardinality({c \in Callers : loadResult[c] = "ok"}) <= 1
    /\ \A c, d \in Callers :
          gpc[c] = "returned" /\ gpc[d] = "returned" => got[c] = got[d]

\* C3: for a /transcribe request past the gate and the extension check, a
\* failed conversion or validation is answered 400, a failed model call 500,
\* 200 is answered only when all three stages succeeded, and the status is one
\* of 200, 400, 500.
C3_ErrorMapping ==
    \A r \in Requests :
        (Transcribed(r) /\ steps[r] # <<>>) =>
            /\ response[r].status \in {200, 400, 500}
            /\ stage[r].convert = "failed" => response[r].status = 400
            /\ stage[r].validate = "failed" => response[r].status = 400
            /\ stage[r].transcribe = "failed" => response[r].status = 500
            /\ response[r].status = 200 =>
                  /\ stage[r].convert = "ok"
                  /\ stage[r].validate = "ok"
                  /\ stage[r].transcribe = "ok"

\* C3 happens: all stages ran, the model call failed, the answer is 500
C3_Witness ==
    \E r \in Requests :
        /\ Transcribed(r)
        /\ stage[r].validate = "ok"
        /\ stage[r].transcribe = "failed"
        /\ response[r].status = 500

\* C4: a /transcribe request in flight that has created its input file still
\* has it: no other request deletes it.
C4_TempFileIsolation ==
    \A r \in Requests :
        pc[r] \in {"reading", "convert"} => InputPath(r) \in tempdir

\* C5: while a request is inside the model invocation, the thread that accepts
\* and serves requests is free.
C5_InferenceOffLoop ==
    \A r \in Requests : pc[r] = "inferring" => running = None

\* C6: validate_audio on a decodable file: above 1440 s it raises ValueError
\* with the duration-exceeded cause; up to and including 1440 s it returns
\* valid = TRUE and the measured duration, which is >= 0.
C6_DurationPolicy ==
    (a_pc = "validated" /\ a_file.decodable) =>
        /\ a_file.frames > 1440 * a_file.sr =>
              /\ Raised(a_res)
              /\ a_res.type = "ValueError"
              /\ a_res.cause = "duration_exceeded"
        /\ a_file.frames <= 1440 * a_file.sr =>
              /\ ~Raised(a_res)
              /\ a_res.valid
              /\ a_res.duration = <<a_file.frames, a_file.sr>>
              /\ a_res.duration[1] >= 0

\* C6 happens: a file of exactly 1440 s was validated and accepted
C6_Witness ==
    /\ a_pc = "validated"
    /\ a_file.decodable
    /\ a_file.frames = 1440 * a_file.sr
    /\ ~Raised(a_res)

\* C7: when an os.remove of the finally block raised, the response is the one
\* of the outcome reached before the finally block.
C7_CleanupNeverEscalates ==
    \A r \in Requests :
        (Transcribed(r) /\ removeRaised[r]) => response[r] = Respond(pending[r])

\* C7 happens: a deletion failed after a successful transcription, answered 200
C7_Witness ==
    \E r \in Requests :
        /\ Transcribed(r)
        /\ removeRaised[r]
        /\ stage[r].transcribe = "ok"
        /\ response[r].status = 200

\* C8: with the engine initialized, a /transcribe whose lower-cased extension
\* is outside the allow-list is answered 400 at once: no pipeline step is
\* invoked and TEMP_DIR is not touched.
C8_ExtensionAllowList ==
    [][\A r \in Requests :
          ( /\ route[r] = "none"
            /\ route'[r] = "transcribe"
            /\ model_service # None
            /\ Lower(PathSuffix(filename'[r])) \notin ALLOWED_FORMATS )
          => /\ pc'[r] = "done"
             /\ response'[r].status = 400
             /\ steps'[r] = <<>>
             /\ stage'[r] = stage[r]
             /\ tempdir' = tempdir]_vars

\* C8 happens: .ogg (a name without a suffix) was answered 400
C8_Witness ==
    \E r \in Requests :
        /\ Transcribed(r)
        /\ filename[r] = <<".", "o", "g", "g">>
        /\ response[r].status = 400
        /\ steps[r] = <<>>

\* C9: while model_service is None, /transcribe, /health and /model-info answer
\* 503 "Model not initialized" at once, invoke no pipeline step and leave
\* TEMP_DIR alone; once it is set none of them answers 503.
C9_NotInitializedGate ==
    [][\A r \in Requests :
          /\ ( /\ route[r] = "none"
               /\ route'[r] \in Routes503
               /\ model_service = None )
             => /\ pc'[r] = "done"
                /\ response'[r] # None
                /\ response'[r].status = 503
                /\ response'[r].detail = <<"Model not initialized", "">>
                /\ steps'[r] = <<>>
                /\ tempdir' = tempdir
          /\ ( /\ route'[r] \in Routes503
               /\ response[r] = None
               /\ response'[r] # None
               /\ model_service # None )
             => response'[r].status # 503]_vars

\* C9 happens: a /transcribe with a disallowed extension was answered 503
C9_Witness ==
    \E r \in Requests :
        /\ Transcribed(r)
        /\ ~IsAllowedFormat(FileExtension(filename[r]))
        /\ response[r].status = 503

\* C10: once the model load has failed, get_model_service has raised without
\* setting its global, startup does not complete, model_service stays None
\* and no /transcribe is answered 200.
C10_FatalLoadFailure ==
    loadResult[0] = "failed" =>
        /\ gpc[0] = "raised"
        /\ _model_service_instance = None
        /\ model_service = None
        /\ startup \in {"running", "failed"}
        /\ \A r \in Requests :
              (route[r] = "transcribe" /\ response[r] # None)
                  => response[r].status # 200

\* C10 happens: startup was aborted and a later /transcribe was answered 503
C10_Witness ==
    /\ startup = "failed"
    /\ \E r \in Requests : Transcribed(r) /\ response[r].status = 503

\* C11: once model_service is set, no step changes which instance it is, nor
\* the model or the model name of that instance, nor the singleton global.
C11_ModelHandleReadOnly ==
    [][model_service # None =>
          /\ model_service' = model_service
          /\ _model_service_instance' = _model_service_instance
          /\ heap'[model_service.id] = heap[model_service.id]
          /\ heap[model_service.id].model = ASRModel
          /\ heap[model_service.id].model_name = MODEL_NAME]_vars

\* C11 happens: a model call failed, another request was answered, and the
\* shared instance still holds its model
C11_Witness ==
    /\ model_service # None
    /\ \E r, q \in Requests :
          /\ Transcribed(r)
          /\ stage[r].transcribe = "failed"
          /\ q # r
          /\ pc[q] = "done"
          /\ response[q].status = 200
    /\ heap[model_service.id].model = ASRModel

\* ---- the server started on a temporary directory that already has content
\* (config.py:33 makedirs(exist_ok=True) keeps whatever is there)
InitDirs ==
    /\ ServerFields
    /\ tempdir \in SUBSET {SubDir, InputPath(0)}
    /\ GmsInit
    /\ AudioIdle
    /\ BatchIdle

SpecDirs == InitDirs /\ [][Next]_vars

\* C12: a DELETE /cleanup that answers 200 reports as files_deleted the number
\* of files it deleted, and answers 500 when listing or a removal failed.
C12_CleanupCount ==
    \A r \in Requests :
        (route[r] = "cleanup" /\ pc[r] = "done") =>
            /\ response[r].status \in {200, 500}
            /\ response[r].status = 200 =>
                  response[r].body.files_deleted = Cardinality(removed[r])

(***************************************************************************)
(* ModelService.transcribe_batch (model_service.py:96-130)                 *)
(***************************************************************************)
BatchPaths == {"a.wav", "b.wav"}

PathLists == UNION {[1..n -> BatchPaths] : n \in 0..MaxBatch}

\* what the model hears in the file at path p
TextOf(p) == <<"text of", p>>

\* one element of what self.model.transcribe(audio_paths) returns for path p:
\* a str, a hypothesis with .text and possibly .language, or an object that
\* has no .text
BatchOutputs(p) ==
    { [kind |-> "str", text |-> TextOf(p), has_language |-> FALSE, language |-> ""],
      [kind |-> "hypothesis", text |-> TextOf(p), has_language |-> FALSE, language |-> ""],
      [kind |-> "hypothesis", text |-> TextOf(p), has_language |-> TRUE, language |-> "en"],
      [kind |-> "other", text |-> <<"no text", p>>, has_language |-> FALSE, language |-> ""] }

\* line 113: the model raises, or returns one output per path in the order of
\* the paths
BatchModelReturns(paths) ==
    {Exc("Exception", "model")} \cup
    { [tag |-> "outputs", items |-> o] :
        o \in {f \in [1..Len(paths) -> UNION {BatchOutputs(q) : q \in BatchPaths}] :
                 \A i \in 1..Len(paths) : f[i] \in BatchOutputs(paths[i])} }

\* lines 117-122: the dict appended for one output
BatchEntry(output) ==
    [text |-> output.text,
     language |-> IF output.has_language THEN output.language ELSE "auto-detected",
     confidence |-> None]

\* a mutant of BatchResults: results.insert(0, ...) instead of append
BatchResults_Prepend(items) ==
    [i \in 1..Len(items) |-> BatchEntry(items[Len(items) + 1 - i])]

\* lines 115-122: results after the loop over outputs, one append per output
BatchResults(items) ==
    [i \in 1..Len(items) |-> BatchEntry(items[i])]

\* lines 109-130: the try block after the model call returned or raised out
TranscribeBatchBody(out) ==
    IF Raised(out) THEN Exc("RuntimeError", "Batch transcription failed")
    ELSE IF \E i \in 1..Len(out.items) : out.items[i].kind = "other"
         THEN Exc("RuntimeError", "Batch transcription failed")
    ELSE [tag |-> "results", items |-> BatchResults(out.items)]

BatchInit ==
    /\ b_pc = "new"
    /\ b_paths \in PathLists
    /\ b_outs = None
    /\ b_res = None

\* lines 106-113: the guard on self.model, then the model invocation
BatchInvoke ==
    /\ b_pc = "new"
    /\ \E loaded \in BOOLEAN :
          IF ~loaded
          THEN /\ b_res' = Exc("RuntimeError", "Model not loaded")
               /\ b_pc' = "done"
               /\ b_outs' = b_outs
          ELSE /\ \E out \in BatchModelReturns(b_paths) : b_outs' = out
               /\ b_pc' = "called"
               /\ b_res' = b_res
    /\ UNCHANGED b_paths

\* lines 115-130: the loop, the return, the except clause
BatchFinish ==
    /\ b_pc = "called"
    /\ b_res' = TranscribeBatchBody(b_outs)
    /\ b_pc' = "done"
    /\ UNCHANGED <<b_paths, b_outs>>

InitBatch == ServerIdle /\ GmsInit /\ AudioIdle /\ BatchInit

NextBatch ==
    \/ BatchInvoke /\ UNCHANGED svars /\ UNCHANGED gvars /\ UNCHANGED avars
    \/ BatchFinish /\ UNCHANGED svars /\ UNCHANGED gvars /\ UNCHANGED avars

SpecBatch == InitBatch /\ [][NextBatch]_vars

\* a step of the batch call failed: the guard, the model, or one conversion
BatchFailed ==
    \/ b_outs = None
    \/ Raised(b_outs)
    \/ \E i \in 1..Len(b_outs.items) : b_outs.items[i].kind = "other"

\* C13: a finished transcribe_batch either returns one entry per path, entry i
\* holding the text of path i, or raises; it raises exactly when the guard,
\* the model call or one conversion failed, and nothing is returned before.
C13_BatchOrderAndAtomicity ==
    /\ b_pc # "done" => b_res = None
    /\ b_pc = "done" =>
          /\ Raised(b_res) <=> BatchFailed
          /\ ~Raised(b_res) =>
                /\ Len(b_res.items) = Len(b_paths)
                /\ \A i \in 1..Len(b_paths) :
                      /\ b_res.items[i].text = TextOf(b_paths[i])
                      /\ b_res.items[i].confidence = None

\* C13 happens: a batch of several different paths was transcribed
C13_Witness ==
    /\ b_pc = "done"
    /\ ~Raised(b_res)
    /\ Len(b_paths) >= 2
    /\ b_paths[1] # b_paths[2]
    /\ b_res.items[2].language = "en"

\* the status get_model_info reports for a ModelService reference
StatusOf(ref) == get_model_info(heap[ref.id], FALSE).status

\* C14: get_model_info answers "loaded" or "not loaded" for every object, with
\* or without CUDA; the objects answering "loaded" are as many as the loads
\* that succeeded; and every reference a caller holds, was returned, or is
\* stored in the global answers "loaded".
C14_StatusSnapshot ==
    /\ \A i \in 1..Len(heap) : \A cuda \in BOOLEAN :
          /\ get_model_info(heap[i], cuda).status \in {"loaded", "not loaded"}
          /\ get_model_info(heap[i], cuda).status = "loaded" <=> heap[i].model = ASRModel
          /\ get_model_info(heap[i], cuda).model_name = MODEL_NAME
    /\ Cardinality({i \in 1..Len(heap) : StatusOf(Ref(i)) = "loaded"})
          = Cardinality({c \in Callers : loadResult[c] = "ok"})
    /\ Cardinality({i \in 1..Len(heap) : StatusOf(Ref(i)) = "not loaded"})
          = Cardinality({c \in Callers : loadResult[c] = "failed"})
    /\ _model_service_instance # None => StatusOf(_model_service_instance) = "loaded"
    /\ \A c \in Callers :
          /\ got[c] # None => StatusOf(got[c]) = "loaded"
          /\ mine[c] # None => StatusOf(mine[c]) = "loaded"

\* C14 happens: one caller's load failed and another caller was handed an
\* instance
C14_Witness ==
    \E c, d \in Threads :
        /\ loadResult[d] = "failed"
        /\ gpc[d] = "raised"
        /\ got[c] # None
        /\ StatusOf(got[c]) = "loaded"

\* the five steps of one /transcribe request, in the order of the handler
PipelineOrder == <<"persist", "normalize", "validate", "infer", "cleanup">>

\* the first k steps in order, then possibly the cleanup
OrderedRun(s) ==
    \E k \in 0..4 :
        \/ s = SubSeq(PipelineOrder, 1, k)
        \/ k >= 1 /\ s = SubSeq(PipelineOrder, 1, k) \o <<"cleanup">>

Invoked(r, step) == \E i \in 1..Len(steps[r]) : steps[r][i] = step

\* C15: the steps a request has taken are the first k of persist, normalize,
\* validate, infer in that order, each once, then possibly cleanup; validate
\* runs only after a successful normalize and infer only after a successful
\* validate; a failed step leaves only cleanup to come, and the request ends
\* after cleanup with status 200 exactly when the inference succeeded.
C15_StrictOrderNoRetry ==
    \A r \in Requests :
        /\ OrderedRun(steps[r])
        /\ Invoked(r, "validate") => stage[r].convert = "ok"
        /\ Invoked(r, "infer") => stage[r].validate = "ok"
        /\ stage[r].convert = "failed" => ~Invoked(r, "validate")
        /\ stage[r].validate = "failed" => ~Invoked(r, "infer")
        /\ pending[r] # None <=> (pc[r] = "finally" \/ (Transcribed(r) /\ steps[r] # <<>>))
        /\ (stage[r].convert = "failed" \/ stage[r].validate = "failed"
              \/ stage[r].transcribe = "failed") => pc[r] \in {"finally", "done"}
        /\ (Transcribed(r) /\ steps[r] # <<>>) =>
              /\ steps[r][Len(steps[r])] = "cleanup"
              /\ response[r].status = 200 <=> stage[r].transcribe = "ok"

\* C15 happens: a request whose validation failed was answered after
\* persist, normalize, validate, cleanup
C15_Witness ==
    \E r \in Requests :
        /\ Transcribed(r)
        /\ stage[r].validate = "failed"
        /\ steps[r] = <<"persist", "normalize", "validate", "cleanup">>
        /\ response[r].status = 400

\* C16: when the cleanup step of a request has run, its normalized file is
\* still in the temporary directory only if the removal of that very file
\* raised; what happened to the original file does not matter.
C16_IndependentCleanup ==
    \A r \in Requests :
        (Transcribed(r) /\ Invoked(r, "cleanup") /\ WavPath(r) \in tempdir) =>
            WavPath(r) \in raisedOn[r]

(***************************************************************************)
(* SpecLive: every external call returns or raises and the event loop     *)
(* resumes a task that is ready, so while some handler or the startup hook *)
(* can take its next step, one of them eventually does.                    *)
(***************************************************************************)
HandlerStep ==
    \/ StartupGetModelService
    \/ StartupEnd
    \/ \E r \in Requests :
          \/ TranscribeRead(r)
          \/ Convert(r)
          \/ Validate(r)
          \/ InferBegin(r)
          \/ InferEnd(r)
          \/ Finally(r)

Fairness == WF_vars(HandlerStep)

SpecLive == Init /\ [][Next]_vars /\ Fairness

\* a /transcribe request between its first pipeline step and its response
InFlight(r) == route[r] = "transcribe" /\ pc[r] \notin {"idle", "done"}

\* C17: from some point on no /transcribe request is in flight, that is,
\* every request that started has ended; a request that went through the
\* pipeline ends after its cleanup step; a request has a response exactly
\* when it has ended, and a response once sent is never replaced.
C17_EveryRequestCompletes ==
    /\ <>[](\A r \in Requests : ~InFlight(r))
    /\ [](\A r \in Requests :
            /\ response[r] # None <=> pc[r] = "done"
            /\ (Transcribed(r) /\ Invoked(r, "persist")) => Invoked(r, "cleanup"))
    /\ [][\A r \in Requests : response[r] # None => response'[r] = response[r]]_vars

\* C17 happens: a request was answered after its cleanup step while another
\* one is still waiting for its upload
C17_Witness ==
    \E r, q \in Requests :
        /\ Transcribed(r)
        /\ Invoked(r, "cleanup")
        /\ response[r] # None
        /\ pc[q] = "reading"

\* a duration <<frames, sample rate>> of at least 0 s and at most 1440 s
WithinLimit(d) == 0 <= d[1] /\ d[1] <= 1440 * d[2]

\* C18: the model is invoked only on a normalized file that the validator
\* measured, at no more than 1440 s; a status-200 response carries that
\* measured duration, which lies in [0, 1440] s.
C18_BoundedDurationInference ==
    \A r \in Requests :
        /\ Invoked(r, "infer") =>
              /\ audio_info[r] # None
              /\ audio_info[r].duration = <<converted[r].frames, converted[r].sr>>
              /\ WithinLimit(audio_info[r].duration)
        /\ (Transcribed(r) /\ response[r].status = 200) =>
              /\ Invoked(r, "infer")
              /\ response[r].body.audio_duration = audio_info[r].duration
              /\ WithinLimit(response[r].body.audio_duration)

\* C18 happens: an upload of exactly 1440 s was transcribed and another one,
\* longer than 1440 s, was refused before the model saw it
C18_Witness ==
    \E r, q \in Requests :
        /\ Transcribed(r)
        /\ response[r].status = 200
        /\ response[r].body.audio_duration = <<1440 * SAMPLE_RATE, SAMPLE_RATE>>
        /\ Transcribed(q)
        /\ stage[q].validate = "failed"
        /\ converted[q] # None
        /\ converted[q].frames > 1440 * converted[q].sr
        /\ ~Invoked(q, "infer")
====
